---- MODULE Spec2Model ----
(***************************************************************************)
(* A model of the Notion -> Anki pipeline: the block walker                *)
(* (notion.py), the page locator (notion.py), the flashcard publisher      *)
(* (anki.py, server.py) and the tool entry points (server.py).             *)
(*                                                                         *)
(* Text is a sequence of one-character strings, so that str.strip() and    *)
(* concatenation are computed and not assumed.  A JSON value that the code *)
(* reads with [] or .get() carries a tag saying whether the key is         *)
(* missing, null, or present; Python exceptions are named by class.        *)
(***************************************************************************)
EXTENDS Integers, Sequences, FiniteSets, TLC

VARIABLES
    comp,           \* the entry point this behaviour runs
    pc,             \* position of the running coroutine
    exc,            \* the exception class raised out of the callee, or NoExc
    idx,            \* get_toggle_answer / analyze_blocks: blocks consumed
    arg,            \* the tool's string argument (page_name, page_id)
    ret,            \* the value the entry point returned
    children,       \* get_toggle_answer: toggle_content
    answer,         \* get_toggle_answer: answer
    number,         \* get_toggle_answer: number
    previous_type,  \* get_toggle_answer: previous_type
    blocks,         \* fetch_page_content: response['results']
    topics,         \* analyze_blocks: topics
    content,        \* analyze_blocks: content
    results,        \* search_notion_page: pages['results']
    cards,          \* post_flashcards: cards
    calls,          \* the AnkiConnect requests sent so far, with their responses
    result,         \* post_flashcards: result (what add_notes returned)
    publish_result, \* what post_flashcards returned
    synth           \* generate_flashcards: how the generate_flashcards_gpt call ended

commonVars == <<comp, pc, exc, idx, arg, ret>>
toggleVars == <<children, answer, number, previous_type>>
walkVars == <<blocks, topics, content>>
searchVars == <<results>>
publishVars == <<cards, calls, result, publish_result>>
genVars == <<synth>>

vars == <<commonVars, toggleVars, walkVars, searchVars, publishVars, genVars>>

-----------------------------------------------------------------------------
(* Bounds *)

MaxChildren == 4
MaxMalformedLen == 2

-----------------------------------------------------------------------------
(* Python values *)

MISSING == "<missing>"
NULL == "<null>"
NoExc == "none"
NoType == "<None>"

\* the exception classes raised in the model; all derive from Exception
ExceptionClasses ==
    {"KeyError", "IndexError", "TypeError", "AttributeError", "ValueError",
     "APIResponseError", "Exception"}

\* a handler that catches the lookup errors only
IsLookupError(e) == e \in {"KeyError", "IndexError", "TypeError"}

\* except Exception: whether the clause catches an exception of class e
IsException(e) == e \in ExceptionClasses

\* str.isspace() over the characters the model uses
IsSpace(c) == c \in {" ", "\n", "\t"}

RECURSIVE LStrip(_)
LStrip(s) ==
    IF s = <<>> THEN <<>>
    ELSE IF IsSpace(Head(s)) THEN LStrip(Tail(s))
    ELSE s

RECURSIVE RStrip(_)
RStrip(s) ==
    IF s = <<>> THEN <<>>
    ELSE IF IsSpace(s[Len(s)]) THEN RStrip(SubSeq(s, 1, Len(s) - 1))
    ELSE s

\* str.strip()
Strip(s) == RStrip(LStrip(s))

DigitChar == <<"0", "1", "2", "3", "4", "5", "6", "7", "8", "9">>

\* f"{number}" for a non-negative int
RECURSIVE FormatInt(_)
FormatInt(n) ==
    IF n < 10 THEN <<DigitChar[n + 1]>>
    ELSE FormatInt(n \div 10) \o <<DigitChar[(n % 10) + 1]>>

-----------------------------------------------------------------------------
(* Blocks as the document service returns them *)

\* one inline run (an element of a rich_text list)
TextRun(s) == [kind |-> "dict", text |-> "dict", content |-> s]
MentionRun == [kind |-> "dict", text |-> MISSING, content |-> <<>>]
NullTextRun == [kind |-> "dict", text |-> NULL, content |-> <<>>]
NullRun == [kind |-> NULL, text |-> MISSING, content |-> <<>>]
StrRun == [kind |-> "str", text |-> MISSING, content |-> <<>>]

\* a child block: its type tag, block[type] and block[type]['rich_text']
Child(t, p, r, runs) == [type |-> t, payload |-> p, rich_text |-> r, runs |-> runs]
WellFormed(t, runs) == Child(t, "dict", "list", runs)

ChildTypes == {"paragraph", "bulleted_list_item", "numbered_list_item", "divider"}

Paragraph(s) == WellFormed("paragraph", <<TextRun(s)>>)
Bulleted(s) == WellFormed("bulleted_list_item", <<TextRun(s)>>)
Numbered(s) == WellFormed("numbered_list_item", <<TextRun(s)>>)
Divider == WellFormed("divider", <<>>)

\* the well-formed children: each rendered type, an ignored type, a paragraph
\* of several runs (one of them without a 'text' key) and an item of no runs
WellFormedChildren ==
    {Paragraph(<<"A">>), Paragraph(<<"g", "a", "p">>), Bulleted(<<"B">>),
     Numbered(<<"C">>), Numbered(<<"D">>), Divider,
     WellFormed("paragraph", <<TextRun(<<"A">>), MentionRun, TextRun(<<"B">>)>>),
     WellFormed("numbered_list_item", <<>>)}

\* children missing a field the loop reads
MalformedChildren ==
    {Child(MISSING, "dict", "list", <<>>),
     Child("paragraph", MISSING, MISSING, <<>>),
     Child("bulleted_list_item", NULL, MISSING, <<>>),
     Child("numbered_list_item", "dict", MISSING, <<>>),
     Child("paragraph", "dict", "list", <<NullTextRun>>),
     Child("paragraph", "dict", "list", <<NullRun>>)}

SeqsUpTo(S, n) == UNION {[1..k -> S] : k \in 0..n}

-----------------------------------------------------------------------------
(* notion.py: get_toggle_answer *)

\* a result of a step that may raise
Ok(v) == [exc |-> NoExc, val |-> v]
Raise(e) == [exc |-> e, val |-> <<>>]

\* block[key]['rich_text'], as a list to iterate
RichTextOf(block) ==
    IF block.payload = MISSING THEN Raise("KeyError")
    ELSE IF block.payload = NULL THEN Raise("TypeError")
    ELSE IF block.rich_text = MISSING THEN Raise("KeyError")
    ELSE IF block.rich_text = NULL THEN Raise("TypeError")
    ELSE Ok(block.runs)

\* for excerpt in runs: if 'text' in excerpt: acc += excerpt['text']['content']
RECURSIVE AppendRuns(_, _)
AppendRuns(acc, runs) ==
    IF runs = <<>> THEN Ok(acc)
    ELSE LET excerpt == Head(runs) IN
         IF excerpt.kind = NULL THEN Raise("TypeError")
         ELSE IF excerpt.kind = "str" THEN AppendRuns(acc, Tail(runs))
         ELSE IF excerpt.text = MISSING THEN AppendRuns(acc, Tail(runs))
         ELSE IF excerpt.text = NULL THEN Raise("TypeError")
         ELSE AppendRuns(acc \o excerpt.content, Tail(runs))

\* a numbering that a non-numbered sibling does not reset
NextNumberNoReset(num, prev) ==
    IF prev = "numbered_list_item" THEN num + 1 ELSE num

\* the value of number used for a numbered_list_item
NextNumber(num, prev) ==
    IF prev = "numbered_list_item" THEN num + 1 ELSE 1

\* the prefix of the rendered line of a block of type t
LinePrefix(t, num) ==
    IF t = "paragraph" THEN <<>>
    ELSE IF t = "bulleted_list_item" THEN <<"-", " ">>
    ELSE FormatInt(num) \o <<".", " ">>

Rendered == {"paragraph", "bulleted_list_item", "numbered_list_item"}

\* one iteration of the loop over toggle_content; st is the loop's state
ToggleStep(st, block) ==
    IF block.type = MISSING THEN [st EXCEPT !.exc = "KeyError"]
    ELSE IF block.type \in Rendered THEN
        LET num == IF block.type = "numbered_list_item"
                   THEN NextNumber(st.number, st.previous_type)
                   ELSE st.number
            rt == RichTextOf(block)
            line == IF rt.exc = NoExc
                    THEN AppendRuns(LinePrefix(block.type, num), rt.val)
                    ELSE rt
        IN IF line.exc # NoExc
           THEN [st EXCEPT !.number = num, !.exc = line.exc]
           ELSE [answer |-> st.answer \o line.val \o <<"\n">>,
                 number |-> num,
                 previous_type |-> block.type,
                 exc |-> NoExc]
    ELSE [st EXCEPT !.previous_type = block.type]

ToggleStart == [answer |-> <<>>, number |-> 1, previous_type |-> NoType, exc |-> NoExc]

RECURSIVE ToggleLoop(_, _)
ToggleLoop(st, rest) ==
    IF rest = <<>> \/ st.exc # NoExc THEN st
    ELSE ToggleLoop(ToggleStep(st, Head(rest)), Tail(rest))

\* get_toggle_answer on the listed children: the answer, or the exception
get_toggle_answer(toggle_content) ==
    LET st == ToggleLoop(ToggleStart, toggle_content)
    IN IF st.exc = NoExc THEN Ok(st.answer) ELSE Raise(st.exc)

-----------------------------------------------------------------------------
(* get_toggle_answer, one loop iteration per step *)

ToggleState == [answer |-> answer, number |-> number,
                previous_type |-> previous_type, exc |-> exc]

NoRet == [status |-> "none"]

\* the variables of the components that a behaviour does not run
ToggleIdle ==
    /\ children = <<>>
    /\ answer = <<>>
    /\ number = 1
    /\ previous_type = NoType
WalkIdle ==
    /\ blocks = <<>>
    /\ topics = {}
    /\ content = <<>>
SearchIdle == results = <<>>
GenerateIdle == synth = "not_called"
PublishIdle ==
    /\ cards = <<>>
    /\ calls = <<>>
    /\ result = <<>>
    /\ publish_result = NoRet

InitToggle ==
    /\ comp = "get_toggle_answer"
    /\ arg = <<>>
    /\ ret = NoRet
    /\ WalkIdle /\ SearchIdle /\ PublishIdle
    /\ pc = "toggle_loop"
    /\ children \in SeqsUpTo(WellFormedChildren, MaxChildren)
                    \cup SeqsUpTo(WellFormedChildren \cup MalformedChildren, MaxMalformedLen)
    /\ idx = 0
    /\ answer = ToggleStart.answer
    /\ number = ToggleStart.number
    /\ previous_type = ToggleStart.previous_type
    /\ exc = NoExc
    /\ GenerateIdle

\* the loop body on the block of type-class cls
ToggleIterate(cls) ==
    /\ pc = "toggle_loop"
    /\ idx < Len(children)
    /\ LET block == children[idx + 1]
           st == ToggleStep(ToggleState, block)
       IN /\ cls = IF block.type \in Rendered THEN block.type ELSE "other"
          /\ answer' = st.answer
          /\ number' = st.number
          /\ previous_type' = st.previous_type
          /\ exc' = st.exc
          /\ pc' = IF st.exc = NoExc THEN "toggle_loop" ELSE "toggle_raised"
    /\ idx' = idx + 1
    /\ UNCHANGED <<comp, arg, ret, children, walkVars, searchVars, publishVars, genVars>>

ToggleParagraph == ToggleIterate("paragraph")
ToggleBulleted == ToggleIterate("bulleted_list_item")
ToggleNumbered == ToggleIterate("numbered_list_item")
ToggleOther == ToggleIterate("other")

ToggleReturn ==
    /\ pc = "toggle_loop"
    /\ idx = Len(children)
    /\ pc' = "toggle_done"
    /\ UNCHANGED <<comp, exc, idx, arg, ret, toggleVars, walkVars, searchVars, publishVars, genVars>>

NextToggle ==
    \/ ToggleParagraph
    \/ ToggleBulleted
    \/ ToggleNumbered
    \/ ToggleOther
    \/ ToggleReturn

SpecToggle == InitToggle /\ [][NextToggle]_vars

-----------------------------------------------------------------------------
(* The rendering rule, stated per position of the child sequence *)

\* the text of a block: the contents of its runs that carry text, in order
RECURSIVE TextOfRuns(_)
TextOfRuns(runs) ==
    IF runs = <<>> THEN <<>>
    ELSE (IF Head(runs).text = "dict" THEN Head(runs).content ELSE <<>>)
         \o TextOfRuns(Tail(runs))

\* n of the numbered item at position i of cs
RECURSIVE NumberAt(_, _)
NumberAt(cs, i) ==
    IF i = 1 THEN 1
    ELSE IF cs[i - 1].type # "numbered_list_item" THEN 1
    ELSE NumberAt(cs, i - 1) + 1

LineAt(cs, i) ==
    LET t == cs[i].type
        text == TextOfRuns(cs[i].runs)
    IN CASE t = "paragraph" -> text \o <<"\n">>
         [] t = "bulleted_list_item" -> <<"-", " ">> \o text \o <<"\n">>
         [] t = "numbered_list_item" ->
                FormatInt(NumberAt(cs, i)) \o <<".", " ">> \o text \o <<"\n">>
         [] OTHER -> <<>>

RECURSIVE LinesUpTo(_, _)
LinesUpTo(cs, n) ==
    IF n = 0 THEN <<>> ELSE LinesUpTo(cs, n - 1) \o LineAt(cs, n)

Example1 == <<Paragraph(<<"A">>), Bulleted(<<"B">>), Numbered(<<"C">>), Numbered(<<"D">>)>>
Example1Answer ==
    <<"A", "\n", "-", " ", "B", "\n", "1", ".", " ", "C", "\n", "2", ".", " ", "D", "\n">>
Example2 == <<Numbered(<<"C">>), Paragraph(<<"g", "a", "p">>), Numbered(<<"D">>)>>
Example2Answer ==
    <<"1", ".", " ", "C", "\n", "g", "a", "p", "\n", "1", ".", " ", "D", "\n">>

\* C1: get_toggle_answer returns the in-order concatenation of one line per
\* child (paragraph: text; bulleted: "- " text; numbered: "<n>. " text; other:
\* nothing), n being 1 after a non-numbered sibling or at the start and the
\* previous n plus 1 otherwise; the same holds of the answer built so far at
\* every iteration, and the two worked examples give the stated strings.
C1_ToggleAnswer ==
    /\ pc = "toggle_done" => answer = LinesUpTo(children, Len(children))
    /\ pc = "toggle_loop" => answer = LinesUpTo(children, idx)
    /\ (pc = "toggle_done" /\ children = Example1) => answer = Example1Answer
    /\ (pc = "toggle_done" /\ children = Example2) => answer = Example2Answer

C1_Witness ==
    /\ pc = "toggle_done"
    /\ children = Example1
    /\ answer = Example1Answer

-----------------------------------------------------------------------------
(* Top-level blocks of a page *)

\* a top-level block: the fields analyze_blocks reads, the block's id and what
\* blocks.children.list(id) answers (list_ok = FALSE: the call raises)
Top(t, p, r, runs, id, ok, kids) ==
    [type |-> t, payload |-> p, rich_text |-> r, runs |-> runs,
     id |-> id, list_ok |-> ok, children |-> kids]

Heading(s) == Top("heading_1", "dict", "list", <<TextRun(s)>>, "present", TRUE, <<>>)
Toggle(q, kids) == Top("toggle", "dict", "list", <<TextRun(q)>>, "present", TRUE, kids)

\* the type tags that contain the substring "heading"
HeadingTypes == {"heading_1", "heading_2", "heading_3"}

WhatIsX == <<"W", "h", "a", "t", " ", "i", "s", " ", "X", "?">>
XIsY == <<"X", " ", "i", "s", " ", "Y", ".">>

WellFormedTop ==
    {Heading(<<"T">>), Heading(<<" ", "T", " ">>), Heading(<<" ", " ">>),
     Top("heading_2", "dict", "list", <<TextRun(<<"U">>), TextRun(<<"V">>)>>,
         "present", TRUE, <<>>),
     Top("heading_3", "dict", "list", <<>>, "present", TRUE, <<>>),
     Top("paragraph", "dict", "list", <<TextRun(<<"A">>)>>, "present", TRUE, <<>>),
     Toggle(WhatIsX, <<Paragraph(XIsY)>>),
     Toggle(WhatIsX, <<Numbered(<<"C">>), Numbered(<<"D">>)>>),
     Toggle(WhatIsX, <<>>),
     Toggle(<<" ", "Q", "\n">>, <<Bulleted(<<"B">>), Divider>>),
     Toggle(<<"Q">>, <<Paragraph(<<" ">>)>>),
     Toggle(<<"Q">>, <<Paragraph(<<" ", "A">>), Paragraph(<<>>)>>),
     Toggle(<<" ">>, <<Paragraph(<<"A">>)>>)}

MalformedTop ==
    {Top(MISSING, "dict", "list", <<TextRun(<<"T">>)>>, "present", TRUE, <<>>),
     Top(NULL, "dict", "list", <<TextRun(<<"T">>)>>, "present", TRUE, <<>>),
     Top("heading_1", MISSING, MISSING, <<>>, "present", TRUE, <<>>),
     Top("heading_1", NULL, MISSING, <<>>, "present", TRUE, <<>>),
     Top("heading_1", "dict", MISSING, <<>>, "present", TRUE, <<>>),
     Top("heading_1", "dict", "list", <<MentionRun>>, "present", TRUE, <<>>),
     Top("heading_1", "dict", "list", <<NullRun>>, "present", TRUE, <<>>),
     Top("heading_1", "dict", "list", <<StrRun>>, "present", TRUE, <<>>),
     Top("toggle", NULL, MISSING, <<>>, "present", TRUE, <<>>),
     Top("toggle", "dict", "list", <<TextRun(<<"Q">>)>>, MISSING, TRUE, <<>>),
     Toggle(<<"Q">>, <<Paragraph(<<"A">>), Child(MISSING, "dict", "list", <<>>)>>),
     Toggle(<<"Q">>, <<Child("paragraph", NULL, MISSING, <<>>)>>)}

\* a toggle whose children the document service fails to list
UnlistableTop ==
    {Top("toggle", "dict", "list", <<TextRun(<<"Q">>)>>, "present", FALSE, <<>>)}

TopBlocks == WellFormedTop \cup MalformedTop \cup UnlistableTop

-----------------------------------------------------------------------------
(* notion.py: analyze_blocks *)

Skip == [exc |-> NoExc, found |-> FALSE, val |-> <<>>]
Found(v) == [exc |-> NoExc, found |-> TRUE, val |-> v]
Fail(e) == [exc |-> e, found |-> FALSE, val |-> <<>>]

\* block.get(block_type, {}).get('rich_text', []), then
\* rich_text and rich_text[0].get('text'), then rich_text[0]['text']['content']
FirstRunContent(block) ==
    IF block.payload = NULL THEN Fail("AttributeError")
    ELSE IF block.payload = MISSING \/ block.rich_text # "list" THEN Skip
    ELSE IF block.runs = <<>> THEN Skip
    ELSE LET first == block.runs[1] IN
         IF first.kind # "dict" THEN Fail("AttributeError")
         ELSE IF first.text # "dict" THEN Skip
         ELSE Found(first.content)

\* the answer kept without trimming
StoredAnswerRaw(a) == a

\* the value stored for a question: answer.strip()
StoredAnswer(a) == Strip(a)

\* await get_toggle_answer(block['id'])
AnswerOf(block) ==
    IF block.id = MISSING THEN Raise("KeyError")
    ELSE IF ~block.list_ok THEN Raise("APIResponseError")
    ELSE get_toggle_answer(block.children)

\* a test that lets the empty string through
TruthyAlways(s) == TRUE

\* if heading.strip(): / if question.strip(): / if answer.strip():
Truthy(s) == s # <<>>

\* the body of the try of one iteration; st is [topics, content, exc]
WalkBody(st, block) ==
    IF block.type = NULL THEN [st EXCEPT !.exc = "TypeError"]
    ELSE IF block.type \in HeadingTypes THEN
        LET h == FirstRunContent(block) IN
        IF h.exc # NoExc THEN [st EXCEPT !.exc = h.exc]
        ELSE IF h.found /\ Truthy(Strip(h.val))
             THEN [st EXCEPT !.topics = @ \cup {Strip(h.val)}]
             ELSE st
    ELSE IF block.type = "toggle" THEN
        LET q == FirstRunContent(block) IN
        IF q.exc # NoExc THEN [st EXCEPT !.exc = q.exc]
        ELSE IF q.found /\ Truthy(Strip(q.val)) THEN
            LET a == AnswerOf(block) IN
            IF a.exc # NoExc THEN [st EXCEPT !.exc = a.exc]
            ELSE IF Truthy(Strip(a.val))
                 THEN [st EXCEPT !.content = (Strip(q.val) :> StoredAnswer(a.val)) @@ @]
                 ELSE st
        ELSE st
    ELSE st

\* except (KeyError, IndexError, TypeError): continue
Caught == {"KeyError", "IndexError", "TypeError"}

\* one iteration of the loop of analyze_blocks
WalkStep(st, block) ==
    LET after == WalkBody(st, block)
    IN IF after.exc \in Caught THEN st ELSE after

WalkStart == [topics |-> {}, content |-> <<>>, exc |-> NoExc]

RECURSIVE WalkLoop(_, _)
WalkLoop(st, rest) ==
    IF rest = <<>> \/ st.exc # NoExc THEN st
    ELSE WalkLoop(WalkStep(st, Head(rest)), Tail(rest))

\* analyze_blocks on a block sequence: topics and content, or the exception
analyze_blocks(bs) == WalkLoop(WalkStart, bs)

-----------------------------------------------------------------------------
(* server.py: extract_page_content, over fetch_page_content and analyze_blocks *)

MaxBlocks == 2

Blank(s) == s = <<>> \/ Strip(s) = <<>>

PageIds == {<<>>, <<" ">>, <<"p", "1">>, <<" ", "p", "1">>}

ErrorEnvelope(msg) ==
    [status |-> "error", topics |-> {}, content |-> <<>>, message |-> msg]

InitExtract ==
    /\ comp = "extract_page_content"
    /\ pc = "extract_start"
    /\ arg \in PageIds
    /\ exc = NoExc
    /\ idx = 0
    /\ ret = NoRet
    /\ ToggleIdle /\ WalkIdle /\ SearchIdle /\ PublishIdle
    /\ GenerateIdle

\* if not page_id or not page_id.strip(): return the error envelope
ExtractReject ==
    /\ comp = "extract_page_content"
    /\ pc = "extract_start"
    /\ Blank(arg)
    /\ ret' = ErrorEnvelope("Page ID cannot be empty.")
    /\ pc' = "returned"
    /\ UNCHANGED <<comp, exc, idx, arg, toggleVars, walkVars, searchVars, publishVars, genVars>>

\* fetch_page_content: notion.blocks.children.list(page_id) answers
FetchList ==
    /\ comp = "extract_page_content"
    /\ pc = "extract_start"
    /\ ~Blank(arg)
    /\ blocks' \in SeqsUpTo(TopBlocks, MaxBlocks)
    /\ pc' = "walk_loop"
    /\ UNCHANGED <<comp, exc, idx, arg, ret, toggleVars, topics, content,
                   searchVars, publishVars, genVars>>

\* fetch_page_content: notion.blocks.children.list(page_id) raises
FetchListFails ==
    /\ comp = "extract_page_content"
    /\ pc = "extract_start"
    /\ ~Blank(arg)
    /\ exc' = "APIResponseError"
    /\ pc' = "raised"
    /\ UNCHANGED <<comp, idx, arg, ret, toggleVars, walkVars, searchVars, publishVars, genVars>>

\* analyze_blocks: one iteration, on a block of the class cls
WalkIterate(cls) ==
    /\ pc = "walk_loop"
    /\ idx < Len(blocks)
    /\ LET block == blocks[idx + 1]
           st == WalkStep([topics |-> topics, content |-> content, exc |-> NoExc], block)
       IN /\ cls = IF block.type \in HeadingTypes THEN "heading"
                   ELSE IF block.type = "toggle" THEN "toggle"
                   ELSE "other"
          /\ topics' = st.topics
          /\ content' = st.content
          /\ exc' = st.exc
          /\ pc' = IF st.exc = NoExc THEN "walk_loop" ELSE "walk_raised"
    /\ idx' = idx + 1
    /\ UNCHANGED <<comp, arg, ret, toggleVars, blocks, searchVars, publishVars, genVars>>

WalkHeading == WalkIterate("heading")
WalkToggle == WalkIterate("toggle")
WalkIgnored == WalkIterate("other")

\* analyze_blocks: return topics, content
WalkReturn ==
    /\ pc = "walk_loop"
    /\ idx = Len(blocks)
    /\ pc' = "walk_done"
    /\ UNCHANGED <<comp, exc, idx, arg, ret, toggleVars, walkVars, searchVars, publishVars, genVars>>

\* fetch_page_content: if topics and content: return topics, content; return None
FetchReturn ==
    /\ pc = "walk_done"
    /\ pc' = IF topics # {} /\ DOMAIN content # {} THEN "fetch_tuple" ELSE "fetch_none"
    /\ UNCHANGED <<comp, exc, idx, arg, ret, toggleVars, walkVars, searchVars, publishVars, genVars>>

\* extract_page_content: topics, content = <None> raises TypeError
ExtractUnpackNone ==
    /\ pc = "fetch_none"
    /\ exc' = "TypeError"
    /\ pc' = "raised"
    /\ UNCHANGED <<comp, idx, arg, ret, toggleVars, walkVars, searchVars, publishVars, genVars>>

\* extract_page_content: the two returns of the try body
ExtractResult ==
    /\ pc = "fetch_tuple"
    /\ ret' = IF topics = {} /\ DOMAIN content = {}
              THEN ErrorEnvelope("No extractable content found in the page.")
              ELSE [status |-> "success", topics |-> topics, content |-> content,
                    message |-> "Extracted topics and content from page ID"]
    /\ pc' = "returned"
    /\ UNCHANGED <<comp, exc, idx, arg, toggleVars, walkVars, searchVars, publishVars, genVars>>

\* extract_page_content: except Exception
ExtractExcept ==
    /\ comp = "extract_page_content"
    /\ pc \in {"raised", "walk_raised"}
    /\ IF IsException(exc)
       THEN ret' = ErrorEnvelope("Content extraction failed") /\ pc' = "returned"
       ELSE ret' = ret /\ pc' = "escaped"
    /\ UNCHANGED <<comp, exc, idx, arg, toggleVars, walkVars, searchVars, publishVars, genVars>>

NextExtract ==
    \/ ExtractReject
    \/ FetchList
    \/ FetchListFails
    \/ WalkHeading
    \/ WalkToggle
    \/ WalkIgnored
    \/ WalkReturn
    \/ FetchReturn
    \/ ExtractUnpackNone
    \/ ExtractResult
    \/ ExtractExcept

SpecExtract == InitExtract /\ [][NextExtract]_vars

-----------------------------------------------------------------------------
(* notion.py: search_notion_page, and server.py: search_page over it *)

MaxResults == 2

\* a title-typed property of a search result: absent from page['properties'],
\* or present with the contents of the runs of its 'title' list
NoProperty == [present |-> FALSE, runs |-> <<>>]
Property(runs) == [present |-> TRUE, runs |-> runs]

Titles == {<<"X">>, <<"x">>, <<"Y">>}

PropertyShapes == {NoProperty, Property(<<>>)} \cup {Property(<<t>>) : t \in Titles}

\* a search result: its 'title' and 'Name' properties; its id is its position
Pages == [title : PropertyShapes,
          Name : {NoProperty, Property(<<>>), Property(<<<<"X">>>>)}]

PageNames == {<<>>, <<" ">>, <<"X">>, <<"X", " ">>, <<"Y">>}

NotFound == [exc |-> NoExc, found |-> FALSE, page_id |-> 0]
FoundPage(i) == [exc |-> NoExc, found |-> TRUE, page_id |-> i]
SearchRaise(e) == [exc |-> e, found |-> FALSE, page_id |-> 0]

\* page['properties'][key]['title'][0]['text']['content'] == page_title
FirstRunEquals(prop, page_title) ==
    IF prop.runs = <<>> THEN [exc |-> "IndexError", eq |-> FALSE]
    ELSE [exc |-> NoExc, eq |-> prop.runs[1] = page_title]

\* the loop over pages['results'] from position i on
RECURSIVE SearchLoop(_, _, _)
SearchLoop(rs, i, page_title) ==
    IF i > Len(rs) THEN NotFound
    ELSE LET page == rs[i] IN
         IF page.title.present THEN
             LET m == FirstRunEquals(page.title, page_title) IN
             IF m.exc # NoExc THEN SearchRaise(m.exc)
             ELSE IF m.eq THEN FoundPage(i)
             ELSE SearchLoop(rs, i + 1, page_title)
         ELSE IF page.Name.present THEN
             LET m == FirstRunEquals(page.Name, page_title) IN
             IF m.exc # NoExc THEN SearchRaise(m.exc)
             ELSE IF m.eq THEN FoundPage(i)
             ELSE SearchLoop(rs, i + 1, page_title)
         ELSE SearchLoop(rs, i + 1, page_title)

\* search_notion_page on the results the search API returned
search_notion_page(rs, page_title) == SearchLoop(rs, 1, page_title)

SearchEnvelope(status, page, msg) ==
    [status |-> status, page_name |-> arg, result |-> page, message |-> msg]

InitSearch ==
    /\ comp = "search_page"
    /\ pc = "search_start"
    /\ arg \in PageNames
    /\ exc = NoExc
    /\ idx = 0
    /\ ret = NoRet
    /\ ToggleIdle /\ WalkIdle /\ SearchIdle /\ PublishIdle
    /\ GenerateIdle

\* if not page_name or not page_name.strip(): return the error envelope
SearchReject ==
    /\ comp = "search_page"
    /\ pc = "search_start"
    /\ Blank(arg)
    /\ ret' = [status |-> "error", page_name |-> <<>>, result |-> NotFound,
               message |-> "Page name cannot be empty."]
    /\ pc' = "returned"
    /\ UNCHANGED <<comp, exc, idx, arg, toggleVars, walkVars, searchVars, publishVars, genVars>>

\* search_notion_page: notion.search(query, filter) answers
SearchQuery ==
    /\ comp = "search_page"
    /\ pc = "search_start"
    /\ ~Blank(arg)
    /\ results' \in SeqsUpTo(Pages, MaxResults)
    /\ pc' = "search_loop"
    /\ UNCHANGED <<comp, exc, idx, arg, ret, toggleVars, walkVars, publishVars, genVars>>

\* search_notion_page: notion.search(query, filter) raises
SearchQueryFails ==
    /\ comp = "search_page"
    /\ pc = "search_start"
    /\ ~Blank(arg)
    /\ exc' = "APIResponseError"
    /\ pc' = "raised"
    /\ UNCHANGED <<comp, idx, arg, ret, toggleVars, walkVars, searchVars, publishVars, genVars>>

\* search_notion_page(page_name.strip()): the scan of the results, and
\* search_page: the return for a page found
SearchFound ==
    /\ pc = "search_loop"
    /\ LET page == search_notion_page(results, Strip(arg))
       IN /\ page.exc = NoExc /\ page.found
          /\ ret' = SearchEnvelope("success", page, "")
    /\ pc' = "returned"
    /\ UNCHANGED <<comp, exc, idx, arg, toggleVars, walkVars, searchVars, publishVars, genVars>>

\* the scan ends without a match, and search_page: the return for None
SearchNotFound ==
    /\ pc = "search_loop"
    /\ LET page == search_notion_page(results, Strip(arg))
       IN /\ page.exc = NoExc /\ ~page.found
          /\ ret' = SearchEnvelope("error", page, "Page not found.")
    /\ pc' = "returned"
    /\ UNCHANGED <<comp, exc, idx, arg, toggleVars, walkVars, searchVars, publishVars, genVars>>

\* the scan raises
SearchScanRaises ==
    /\ pc = "search_loop"
    /\ LET page == search_notion_page(results, Strip(arg))
       IN /\ page.exc # NoExc
          /\ exc' = page.exc
    /\ pc' = "raised"
    /\ UNCHANGED <<comp, idx, arg, ret, toggleVars, walkVars, searchVars, publishVars, genVars>>

\* search_page: except Exception
SearchExcept ==
    /\ comp = "search_page"
    /\ pc = "raised"
    /\ IF IsException(exc)
       THEN ret' = SearchEnvelope("error", NotFound, "Search failed") /\ pc' = "returned"
       ELSE ret' = ret /\ pc' = "escaped"
    /\ UNCHANGED <<comp, exc, idx, arg, toggleVars, walkVars, searchVars, publishVars, genVars>>

NextSearch ==
    \/ SearchReject
    \/ SearchQuery
    \/ SearchQueryFails
    \/ SearchFound
    \/ SearchNotFound
    \/ SearchScanRaises
    \/ SearchExcept

SpecSearch == InitSearch /\ [][NextSearch]_vars

-----------------------------------------------------------------------------
(* anki.py: invoke, create_deck, add_notes, sync_decks *)

MaxCards == 2

\* what urlopen and json.load give for a request: a transport failure, a
\* body that is no JSON, or a JSON value (a dict with some keys, or not)
HttpResponse(transport, isDict, keys, error, payload) ==
    [transport |-> transport, isDict |-> isDict, keys |-> keys,
     error |-> error, result |-> payload]

Envelope(payload) == HttpResponse("ok", TRUE, {"error", "result"}, NULL, payload)

BadResponses ==
    {HttpResponse("URLError", FALSE, {}, NULL, <<>>),
     HttpResponse("JSONDecodeError", FALSE, {}, NULL, <<>>),
     HttpResponse("ok", FALSE, {}, NULL, <<>>),
     HttpResponse("ok", TRUE, {"result"}, NULL, <<>>),
     HttpResponse("ok", TRUE, {"error", "result", "extra"}, NULL, <<>>),
     HttpResponse("ok", TRUE, {"result", "extra"}, NULL, <<>>),
     HttpResponse("ok", TRUE, {"error", "extra"}, NULL, <<>>),
     HttpResponse("ok", TRUE, {"error", "result"}, "deck was not found", <<>>)}

\* the responses to a request whose well-formed answers carry a payload of ps
Responses(ps) == BadResponses \cup {Envelope(payload) : payload \in ps}

\* invoke that returns the result whatever the error field holds
InvokeIgnoringError(response) ==
    IF response.transport # "ok" THEN Raise("Exception")
    ELSE IF ~response.isDict \/ Cardinality(response.keys) # 2 THEN Raise("Exception")
    ELSE IF "error" \notin response.keys THEN Raise("Exception")
    ELSE IF "result" \notin response.keys THEN Raise("Exception")
    ELSE Ok(response.result)

\* invoke: the result of the response, or the exception raised
Invoke(response) ==
    IF response.transport # "ok" THEN Raise("Exception")
    ELSE IF ~response.isDict \/ Cardinality(response.keys) # 2 THEN Raise("Exception")
    ELSE IF "error" \notin response.keys THEN Raise("Exception")
    ELSE IF "result" \notin response.keys THEN Raise("Exception")
    ELSE IF response.error # NULL THEN Raise("Exception")
    ELSE Ok(response.result)

\* a note: whether it is a dict, its keys, whether note['fields'] is a dict
\* and the keys of that; name tells the notes apart
Note(name, isDict, keys, fieldsIsDict, fields) ==
    [name |-> name, isDict |-> isDict, keys |-> keys,
     fieldsIsDict |-> fieldsIsDict, fields |-> fields]

NoteKeys == {"deckName", "modelName", "fields", "options", "tags"}

Card(name) == Note(name, TRUE, NoteKeys, TRUE, {"Front", "Back"})

Notes ==
    {Card("n1"), Card("n2"),
     Note("n3", TRUE, {"deckName", "modelName", "fields"}, TRUE, {"Front", "Back", "Extra"}),
     Note("bad1", FALSE, {}, FALSE, {}),
     Note("bad2", TRUE, NoteKeys \ {"deckName"}, TRUE, {"Front", "Back"}),
     Note("bad3", TRUE, NoteKeys \ {"modelName"}, TRUE, {"Front", "Back"}),
     Note("bad4", TRUE, NoteKeys \ {"fields"}, FALSE, {}),
     Note("bad5", TRUE, NoteKeys, FALSE, {}),
     Note("bad6", TRUE, NoteKeys, TRUE, {"Back"}),
     Note("bad7", TRUE, NoteKeys, TRUE, {"Front"})}

\* a validation that does not look for the Back key
PassesValidationFrontOnly(note) ==
    /\ note.isDict
    /\ \A field \in {"deckName", "modelName", "fields"} : field \in note.keys
    /\ note.fieldsIsDict /\ "Front" \in note.fields

\* add_notes: the three checks of the validation loop
PassesValidation(note) ==
    IF ~note.isDict THEN FALSE
    ELSE IF ~(\A field \in {"deckName", "modelName", "fields"} : field \in note.keys)
         THEN FALSE
    ELSE IF ~note.fieldsIsDict \/ "Front" \notin note.fields \/ "Back" \notin note.fields
         THEN FALSE
    ELSE TRUE

\* add_notes: valid_notes after the loop over notes
RECURSIVE ValidNotes(_)
ValidNotes(notes) ==
    IF notes = <<>> THEN <<>>
    ELSE (IF PassesValidation(Head(notes)) THEN <<Head(notes)>> ELSE <<>>)
         \o ValidNotes(Tail(notes))

\* an add_notes that submits whatever survived, an empty batch too
SubmitsAlways(notes) == TRUE

\* add_notes: whether the batch call is reached (neither early return taken)
Submits(notes) ==
    IF notes = <<>> THEN FALSE
    ELSE IF ValidNotes(notes) = <<>> THEN FALSE
    ELSE TRUE

\* a sync_decks that lets the exception of invoke('sync') out
SyncOutcomeRaising(outcome) == outcome

\* sync_decks: the except clause logs the exception and returns
SyncOutcome(outcome) == Ok(<<>>)

\* what the service may answer per submitted note: an identifier or null
NoteOutcomes == {"id", NULL}

Request(action, notes, response) ==
    [action |-> action, notes |-> notes, response |-> response]

-----------------------------------------------------------------------------
(* server.py: post_flashcards *)

DeckNames == {<<>>, <<" ">>, <<"D">>}

PublishEnvelope(status, res, msg) ==
    [status |-> status, result |-> res, message |-> msg]

InitPublish ==
    /\ comp = "post_flashcards"
    /\ pc = "pf_start"
    /\ arg \in DeckNames
    /\ cards \in SeqsUpTo(Notes, MaxCards)
    /\ exc = NoExc
    /\ idx = 0
    /\ ret = NoRet
    /\ calls = <<>>
    /\ result = <<>>
    /\ publish_result = NoRet
    /\ ToggleIdle /\ WalkIdle /\ SearchIdle
    /\ GenerateIdle

\* create_deck: ValueError for an empty or blank deck name, and otherwise
\* invoke('createDeck', deck=deck_name)
CreateDeck ==
    /\ pc = "pf_start"
    /\ IF Blank(arg)
       THEN /\ exc' = "ValueError"
            /\ pc' = "pf_raised"
            /\ calls' = calls
       ELSE \E response \in Responses({<<"id">>}) :
              LET outcome == Invoke(response) IN
              /\ calls' = Append(calls, Request("createDeck", <<>>, response))
              /\ exc' = outcome.exc
              /\ pc' = IF outcome.exc = NoExc THEN "pf_add" ELSE "pf_raised"
    /\ UNCHANGED <<comp, idx, arg, ret, toggleVars, walkVars, searchVars,
                   cards, result, publish_result, genVars>>

\* add_notes: no notes, or no valid notes: return []
AddNotesEmpty ==
    /\ pc = "pf_add"
    /\ ~Submits(cards)
    /\ result' = <<>>
    /\ pc' = "pf_sync"
    /\ UNCHANGED <<comp, exc, idx, arg, ret, toggleVars, walkVars, searchVars,
                   cards, calls, publish_result, genVars>>

\* add_notes: invoke('addNotes', notes=valid_notes)
AddNotes ==
    /\ pc = "pf_add"
    /\ Submits(cards)
    /\ LET valid_notes == ValidNotes(cards) IN
       \E response \in Responses([1..Len(valid_notes) -> NoteOutcomes]) :
         LET outcome == Invoke(response) IN
         /\ calls' = Append(calls, Request("addNotes", valid_notes, response))
         /\ exc' = outcome.exc
         /\ result' = IF outcome.exc = NoExc THEN outcome.val ELSE result
         /\ pc' = IF outcome.exc = NoExc THEN "pf_sync" ELSE "pf_raised"
    /\ UNCHANGED <<comp, idx, arg, ret, toggleVars, walkVars, searchVars,
                   cards, publish_result, genVars>>

\* sync_decks: invoke('sync'), and post_flashcards: the return of the try body
SyncDecks ==
    /\ pc = "pf_sync"
    /\ \E response \in Responses({<<>>}) :
         LET outcome == SyncOutcome(Invoke(response)) IN
         /\ calls' = Append(calls, Request("sync", <<>>, response))
         /\ exc' = outcome.exc
         /\ IF outcome.exc = NoExc
            THEN /\ publish_result' = PublishEnvelope("added", result, "Added flashcards")
                 /\ pc' = "pf_returned"
            ELSE /\ publish_result' = publish_result
                 /\ pc' = "pf_raised"
    /\ UNCHANGED <<comp, idx, arg, ret, toggleVars, walkVars, searchVars, cards, result, genVars>>

\* post_flashcards: except Exception
PostExcept ==
    /\ pc = "pf_raised"
    /\ IF IsException(exc)
       THEN /\ publish_result' = PublishEnvelope("error", <<>>, "Failed to add flashcards")
            /\ pc' = "pf_returned"
       ELSE /\ publish_result' = publish_result
            /\ pc' = "raised"
    /\ UNCHANGED <<comp, exc, idx, arg, ret, toggleVars, walkVars, searchVars,
                   cards, calls, result, genVars>>

NextPublish ==
    \/ CreateDeck
    \/ AddNotesEmpty
    \/ AddNotes
    \/ SyncDecks
    \/ PostExcept

SpecPublish == InitPublish /\ [][NextPublish]_vars

-----------------------------------------------------------------------------
(* server.py: generate_flashcards, over generate_flashcards_gpt and *)
(* post_flashcards *)

GenerateEnvelope(status, cs, msg) == [status |-> status, cards |-> cs, message |-> msg]

InitGenerate ==
    /\ comp = "generate_flashcards"
    /\ pc = "gen_start"
    /\ arg \in DeckNames
    /\ topics \in {{}, {<<"T">>}}
    /\ content \in {<<>>, WhatIsX :> XIsY}
    /\ exc = NoExc
    /\ idx = 0
    /\ ret = NoRet
    /\ blocks = <<>>
    /\ ToggleIdle /\ SearchIdle /\ PublishIdle
    /\ GenerateIdle

\* the three input checks before the try
GenerateReject ==
    /\ pc = "gen_start"
    /\ Blank(arg) \/ DOMAIN content = {}
    /\ ret' = GenerateEnvelope("failed", <<>>,
                IF Blank(arg) THEN "Page name cannot be empty"
                ELSE IF topics = {} THEN "No topics or content provided"
                ELSE "No question-answer content found to generate flashcards")
    /\ pc' = "returned"
    /\ UNCHANGED <<comp, exc, idx, arg, toggleVars, walkVars, searchVars, publishVars, genVars>>

\* generate_flashcards_gpt returns cards: post_flashcards is called with them
Synthesize ==
    /\ pc = "gen_start"
    /\ ~Blank(arg) /\ DOMAIN content # {}
    /\ cards' \in SeqsUpTo(Notes, MaxCards) \ {<<>>}
    /\ synth' = "cards"
    /\ pc' = "pf_start"
    /\ UNCHANGED <<comp, exc, idx, arg, ret, toggleVars, walkVars, searchVars,
                   calls, result, publish_result>>

\* generate_flashcards_gpt returns an empty list or None
SynthesizeNothing ==
    /\ pc = "gen_start"
    /\ ~Blank(arg) /\ DOMAIN content # {}
    /\ ret' = GenerateEnvelope("failed", <<>>, "No flashcards were generated")
    /\ synth' = "nothing"
    /\ pc' = "returned"
    /\ UNCHANGED <<comp, exc, idx, arg, toggleVars, walkVars, searchVars, publishVars>>

\* generate_flashcards_gpt raises
SynthesizeFails ==
    /\ pc = "gen_start"
    /\ ~Blank(arg) /\ DOMAIN content # {}
    /\ exc' \in {"Exception", "KeyError"}
    /\ synth' = "raised"
    /\ pc' = "raised"
    /\ UNCHANGED <<comp, idx, arg, ret, toggleVars, walkVars, searchVars, publishVars>>

\* a status that does not look at what post_flashcards returned
GenerateStatusAlwaysCreated(publish) == "created"

\* if publish_result["status"] == "added": "created", else "failed"
GenerateStatus(publish) ==
    IF publish.status = "added" THEN "created" ELSE "failed"

\* the return after post_flashcards
GenerateFinish ==
    /\ comp = "generate_flashcards"
    /\ pc = "pf_returned"
    /\ ret' = GenerateEnvelope(GenerateStatus(publish_result), cards,
                               IF publish_result.status = "added"
                               THEN "Created flashcards in Anki"
                               ELSE "Generated cards but failed to add to Anki")
    /\ pc' = "returned"
    /\ UNCHANGED <<comp, exc, idx, arg, toggleVars, walkVars, searchVars, publishVars, genVars>>

\* generate_flashcards: except Exception
GenerateExcept ==
    /\ comp = "generate_flashcards"
    /\ pc = "raised"
    /\ IF IsException(exc)
       THEN /\ ret' = GenerateEnvelope("failed", <<>>, "Flashcard generation failed")
            /\ pc' = "returned"
       ELSE ret' = ret /\ pc' = "escaped"
    /\ UNCHANGED <<comp, exc, idx, arg, toggleVars, walkVars, searchVars, publishVars, genVars>>

NextGenerate ==
    \/ GenerateReject
    \/ Synthesize
    \/ SynthesizeNothing
    \/ SynthesizeFails
    \/ CreateDeck
    \/ AddNotesEmpty
    \/ AddNotes
    \/ SyncDecks
    \/ PostExcept
    \/ GenerateFinish
    \/ GenerateExcept

SpecGenerate == InitGenerate /\ [][NextGenerate]_vars

-----------------------------------------------------------------------------
(* server.py: the three tools of the server *)

Init == InitSearch \/ InitExtract \/ InitGenerate

Next ==
    \/ SearchReject
    \/ SearchQuery
    \/ SearchQueryFails
    \/ SearchFound
    \/ SearchNotFound
    \/ SearchScanRaises
    \/ SearchExcept
    \/ ExtractReject
    \/ FetchList
    \/ FetchListFails
    \/ WalkHeading
    \/ WalkToggle
    \/ WalkIgnored
    \/ WalkReturn
    \/ FetchReturn
    \/ ExtractUnpackNone
    \/ ExtractResult
    \/ ExtractExcept
    \/ GenerateReject
    \/ Synthesize
    \/ SynthesizeNothing
    \/ SynthesizeFails
    \/ CreateDeck
    \/ AddNotesEmpty
    \/ AddNotes
    \/ SyncDecks
    \/ PostExcept
    \/ GenerateFinish
    \/ GenerateExcept

Spec == Init /\ [][Next]_vars

-----------------------------------------------------------------------------
(* Claims about the walk and the extraction tool *)

MalformedChild(c) ==
    \/ c.type = MISSING
    \/ c.payload # "dict"
    \/ c.rich_text # "list"
    \/ \E i \in 1..Len(c.runs) : c.runs[i].kind # "dict" \/ c.runs[i].text = NULL

\* structurally malformed: no type tag, no or a null payload, no first text
\* run or one that is no record, a toggle without an id or with a malformed
\* child
MalformedBlock(b) ==
    \/ b.type = MISSING
    \/ b.type = NULL
    \/ b.type \in HeadingTypes \cup {"toggle"}
       /\ \/ b.payload # "dict"
          \/ b.rich_text # "list"
          \/ b.runs = <<>>
          \/ b.runs[1].kind # "dict"
          \/ b.runs[1].text # "dict"
    \/ b.type = "toggle"
       /\ \/ b.id = MISSING
          \/ \E i \in 1..Len(b.children) : MalformedChild(b.children[i])

WellFormedBlock(b) == ~MalformedBlock(b)

\* C2: a structurally malformed top-level block is skipped and never aborts
\* the walk: unless a document-service call fails, analyze_blocks returns
\* without raising, and what it returns is what the well-formed blocks of the
\* sequence produce.
C2_MalformedSkipped ==
    /\ pc = "walk_raised" => exc = "APIResponseError"
    /\ pc = "walk_done" =>
         LET expected == analyze_blocks(SelectSeq(blocks, WellFormedBlock))
         IN topics = expected.topics /\ content = expected.content

\* analyze_blocks was called and returned: no exception left the walk
WalkYielded == ~Blank(arg) /\ exc \notin {"APIResponseError", "AttributeError"}

\* C9: with the document service answering, extract_page_content returns the
\* "No extractable content" error exactly when topics and content are both
\* empty and success with the extracted topics and content otherwise.
C9_PartialExtraction ==
    (comp = "extract_page_content" /\ pc = "returned" /\ WalkYielded)
    => IF topics = {} /\ DOMAIN content = {}
       THEN ret = ErrorEnvelope("No extractable content found in the page.")
       ELSE /\ ret.status = "success"
            /\ ret.topics = topics
            /\ ret.content = content

\* a well-formed toggle whose question and rendered answer are not blank
StoresPair(b) ==
    /\ b.type = "toggle"
    /\ WellFormedBlock(b)
    /\ b.list_ok
    /\ Strip(b.runs[1].content) # <<>>
    /\ Strip(LinesUpTo(b.children, Len(b.children))) # <<>>

ExamplePage == <<Toggle(WhatIsX, <<Paragraph(XIsY)>>)>>

\* C10 as stated: the value stored for a toggle is the rendered text of its
\* children with every line's trailing line break kept, so that the example
\* page gives {"What is X?": "X is Y.\n"}.
C10_StoredAnswerUntrimmed ==
    /\ (pc = "walk_loop" /\ idx > 0 /\ StoresPair(blocks[idx]))
       => LET b == blocks[idx]
          IN content[Strip(b.runs[1].content)] = LinesUpTo(b.children, Len(b.children))
    /\ (pc = "walk_done" /\ blocks = ExamplePage)
       => content = (WhatIsX :> (XIsY \o <<"\n">>))

\* C10, amended: the value stored for a toggle is the rendered text of its
\* children with leading and trailing whitespace removed (the last line's
\* line break is dropped, inner ones are kept); the example page gives
\* {"What is X?": "X is Y."}.
C10_StoredAnswerTrimmed ==
    /\ (pc = "walk_loop" /\ idx > 0 /\ StoresPair(blocks[idx]))
       => LET b == blocks[idx]
              key == Strip(b.runs[1].content)
          IN /\ key \in DOMAIN content
             /\ content[key] = Strip(LinesUpTo(b.children, Len(b.children)))
    /\ (pc = "walk_done" /\ blocks = ExamplePage)
       => content = (WhatIsX :> XIsY)

C10_Witness ==
    /\ pc = "walk_done"
    /\ blocks = ExamplePage
    /\ content = (WhatIsX :> XIsY)

-----------------------------------------------------------------------------
(* Claims about the page locator *)

\* the title property of a result: the property named "title" or the one
\* named "Name", whichever is present and non-empty
TitleProperty(page) ==
    IF page.title.present /\ page.title.runs # <<>> THEN page.title
    ELSE IF page.Name.present /\ page.Name.runs # <<>> THEN page.Name
    ELSE NoProperty

TitleMatches(page, page_title) ==
    LET prop == TitleProperty(page)
    IN prop.present /\ prop.runs[1] = page_title

\* C3: search_notion_page returns the first result, in API order, whose title
\* property equals the input exactly, and returns none, without raising, when
\* no result's title property equals it (results with an empty run list
\* included).
C3_FirstExactMatch ==
    LET page_title == Strip(arg)
        matching == {i \in 1..Len(results) : TitleMatches(results[i], page_title)}
    IN /\ (comp = "search_page" /\ pc = "raised") => exc = "APIResponseError"
       /\ (comp = "search_page" /\ pc = "returned" /\ ~Blank(arg)
             /\ exc = NoExc)
          => IF matching = {}
             THEN ~ret.result.found
             ELSE /\ ret.result.found
                  /\ ret.result.page_id \in matching
                  /\ \A i \in matching : ret.result.page_id <= i

-----------------------------------------------------------------------------
(* Claims about the flashcard publisher *)

CallsOf(action) == {i \in DOMAIN calls : calls[i].action = action}

\* a response that is a well-formed envelope carrying no error
Succeeds(response) ==
    /\ response.transport = "ok"
    /\ response.isDict
    /\ response.keys = {"error", "result"}
    /\ response.error = NULL

Succeeded(action) == \E i \in CallsOf(action) : Succeeds(calls[i].response)
Failed(action) == \E i \in CallsOf(action) : ~Succeeds(calls[i].response)

\* a record with deckName, modelName and a fields mapping with Front and Back
WellFormedNote(note) ==
    /\ note.isDict
    /\ {"deckName", "modelName", "fields"} \subseteq note.keys
    /\ note.fieldsIsDict
    /\ {"Front", "Back"} \subseteq note.fields

Survivors == SelectSeq(cards, WellFormedNote)

\* C4: when createDeck and addNotes both succeed, post_flashcards returns
\* status "added" with exactly the value the addNotes submission returned,
\* whether the sync call succeeded or raised.
C4_SyncFailureIgnored ==
    (pc = "pf_returned" /\ Succeeded("createDeck") /\ Succeeded("addNotes"))
    => /\ publish_result.status = "added"
       /\ \A i \in CallsOf("addNotes") : publish_result.result = calls[i].response.result

C4_Witness ==
    /\ pc = "pf_returned"
    /\ Succeeded("createDeck")
    /\ Succeeded("addNotes")
    /\ Failed("sync")
    /\ publish_result.status = "added"
    /\ publish_result.result = <<"id", NULL>>

\* C5: post_flashcards returns status "error", with an empty result and a
\* message, exactly when deck creation or note submission raised (a blank
\* destination name, a transport failure, a malformed or error-carrying
\* envelope); otherwise it returns "added" with the per-note results. Every
\* exception raised inside leads to a return.
C5_ErrorIffRaised ==
    /\ pc = "pf_returned" =>
         LET raised == Blank(arg) \/ Failed("createDeck") \/ Failed("addNotes")
         IN /\ publish_result.status = "error" <=> raised
            /\ raised => /\ publish_result.result = <<>>
                         /\ publish_result.message = "Failed to add flashcards"
            /\ ~raised =>
                 /\ publish_result.status = "added"
                 /\ Len(publish_result.result) = Len(Survivors)
                 /\ \A i \in CallsOf("addNotes") :
                        publish_result.result = calls[i].response.result
    /\ pc # "raised"

C5_Witness ==
    /\ pc = "pf_returned"
    /\ ~Blank(arg)
    /\ Len(calls) = 1
    /\ calls[1].action = "createDeck"
    /\ calls[1].response.error # NULL
    /\ publish_result.status = "error"

\* C6: the batch passed to the addNotes call is exactly the subsequence of
\* the input notes that are records with deckName, modelName and a fields
\* mapping holding both Front and Back, in their original order.
C6_ValidationGate ==
    \A i \in CallsOf("addNotes") : calls[i].notes = Survivors

C6_Witness ==
    /\ cards = <<Card("n1"), Note("bad4", TRUE, NoteKeys \ {"fields"}, FALSE, {})>>
    /\ CallsOf("addNotes") # {}
    /\ \A i \in CallsOf("addNotes") : calls[i].notes = <<Card("n1")>>

\* C7 as stated: if no note survives the validation gate, the publish makes
\* no request to the flashcard service at all (no createDeck, no addNotes, no
\* sync) and returns an empty result.
C7_NoCallWithoutSurvivors ==
    (pc = "pf_returned" /\ Survivors = <<>>)
    => calls = <<>> /\ publish_result.result = <<>>

\* C7, amended: if no note survives the validation gate, the publish sends
\* no addNotes request and returns an empty result; createDeck is still
\* requested first whenever the destination name is not blank, the publish is
\* "added" exactly when that createDeck succeeded, and sync is then requested.
C7_NoAddNotesWithoutSurvivors ==
    (pc = "pf_returned" /\ Survivors = <<>>)
    => /\ CallsOf("addNotes") = {}
       /\ publish_result.result = <<>>
       /\ ~Blank(arg) => Len(calls) >= 1 /\ calls[1].action = "createDeck"
       /\ publish_result.status = "added" <=> Succeeded("createDeck")
       /\ publish_result.status = "added" => calls[Len(calls)].action = "sync"

C7_Witness ==
    /\ pc = "pf_returned"
    /\ cards = <<Note("bad4", TRUE, NoteKeys \ {"fields"}, FALSE, {})>>
    /\ Len(calls) = 2
    /\ calls[1].action = "createDeck"
    /\ calls[2].action = "sync"
    /\ publish_result.status = "added"
    /\ publish_result.result = <<>>

-----------------------------------------------------------------------------
(* Claims about the tool boundary *)

DeclaredStatuses ==
    [search_page |-> {"success", "error"},
     extract_page_content |-> {"success", "error"},
     generate_flashcards |-> {"created", "failed"}]

\* C8: whatever the argument and whatever the component calls do (return a
\* value, return none, raise), no exception leaves search_page,
\* extract_page_content or generate_flashcards, and what the tool returns is
\* an envelope whose status is one the tool declares.
C8_ToolBoundary ==
    /\ pc # "escaped"
    /\ pc = "returned" => ret.status \in DeclaredStatuses[comp]
    /\ pc # "returned" => ret = NoRet

\* extract_page_content returned its error envelope after the walk under
\* fetch_page_content raised an exception that the walk does not catch
C8_Witness ==
    /\ pc = "returned"
    /\ comp = "extract_page_content"
    /\ exc = "AttributeError"
    /\ ret.status = "error"

-----------------------------------------------------------------------------
(* Claims about the per-note results and the order of the requests *)

\* the position in the submitted batch of the input note at position i
BatchPosition(i) == Len(SelectSeq(SubSeq(cards, 1, i), WellFormedNote))

\* the outcome of the input note at position i: what the service answered for
\* it, or the absent marker when the note was not submitted
OutcomeOf(i) ==
    IF WellFormedNote(cards[i]) /\ CallsOf("addNotes") # {}
    THEN LET call == calls[CHOOSE j \in CallsOf("addNotes") : TRUE]
         IN call.response.result[BatchPosition(i)]
    ELSE NULL

\* C11: the result sequence of a successful publish has one entry per input
\* note, in order: as many entries as notes were given, entry i being the
\* outcome (identifier or absent marker) of input note i, also when the
\* validation gate dropped some of the notes.
C11_OneResultPerInputNote ==
    (pc = "pf_returned" /\ publish_result.status = "added")
    => /\ Len(publish_result.result) = Len(cards)
       /\ \A i \in 1..Len(cards) : publish_result.result[i] = OutcomeOf(i)

-----------------------------------------------------------------------------
(* Claims about what the walk collects *)

InWalk == pc \in {"walk_loop", "walk_raised", "walk_done"}

\* C12: at every point of the walk and at its end, the Topic Set holds no
\* empty or whitespace-only string, every Q&A key is non-empty and equal to
\* its trimmed form, and every Q&A value is non-empty after trimming.
C12_NoBlankEntries ==
    InWalk =>
        /\ \A t \in topics : t # <<>> /\ Strip(t) # <<>>
        /\ \A q \in DOMAIN content :
              /\ q # <<>>
              /\ q = Strip(q)
              /\ Strip(content[q]) # <<>>

\* a blank heading was walked and left nothing, and a question with
\* surrounding blanks was kept trimmed with its trimmed answer
C12_Witness ==
    /\ pc = "walk_done"
    /\ blocks = <<Heading(<<" ", " ">>),
                  Toggle(<<" ", "Q", "\n">>, <<Bulleted(<<"B">>), Divider>>)>>
    /\ topics = {}
    /\ content = (<<"Q">> :> <<"-", " ", "B">>)

-----------------------------------------------------------------------------
(* Claims about generate_flashcards *)

\* C13: generate_flashcards returns "created" exactly when page_name is not
\* blank, content is not empty, the synthesizer returned a non-empty card
\* list and post_flashcards returned "added"; with a blank page_name or an
\* empty content neither the completion service nor the flashcard service is
\* called; when the synthesizer returns no cards or raises, the result is
\* "failed" with an empty cards list and no flashcard-service request.
C13_CreatedIffPublished ==
    (comp = "generate_flashcards" /\ pc = "returned")
    => /\ ret.status = "created"
          <=> /\ ~Blank(arg)
              /\ DOMAIN content # {}
              /\ synth = "cards" /\ cards # <<>>
              /\ publish_result.status = "added"
       /\ (Blank(arg) \/ DOMAIN content = {})
          => synth = "not_called" /\ calls = <<>>
       /\ synth \in {"nothing", "raised"}
          => ret.status = "failed" /\ ret.cards = <<>> /\ calls = <<>>

\* cards were synthesized and submitted but the publish failed on addNotes:
\* the tool reports "failed" and hands the cards back
C13_Witness ==
    /\ comp = "generate_flashcards"
    /\ pc = "returned"
    /\ synth = "cards"
    /\ Failed("addNotes")
    /\ publish_result.status = "error"
    /\ ret.status = "failed"
    /\ ret.cards = cards

-----------------------------------------------------------------------------
(* Claims about the order of the flashcard-service requests *)

ActionsCalled == [i \in 1..Len(calls) |-> calls[i].action]

\* createDeck, addNotes, sync in this order, each at most once, addNotes
\* possibly absent; every request before another one succeeded
CallsInOrder ==
    /\ ActionsCalled \in {<<>>, <<"createDeck">>, <<"createDeck", "addNotes">>,
                          <<"createDeck", "sync">>,
                          <<"createDeck", "addNotes", "sync">>}
    /\ \A i \in 1..Len(calls) :
          /\ calls[i].action = "addNotes" => Succeeds(calls[1].response)
          /\ calls[i].action = "sync"
             => \A j \in 1..(i - 1) : Succeeds(calls[j].response)
          /\ (calls[i].action \in {"createDeck", "addNotes"}
                /\ ~Succeeds(calls[i].response))
             => i = Len(calls)

\* a step leaves the requests already sent as they are and sends at most one
CallsAppendOnly ==
    /\ Len(calls') \in {Len(calls), Len(calls) + 1}
    /\ SubSeq(calls', 1, Len(calls)) = calls

\* C14: within one post_flashcards call the requests go out one at a time in
\* the order createDeck, addNotes, sync, each at most once; addNotes only
\* after createDeck succeeded, sync only after add_notes returned without
\* raising; after a failed createDeck or addNotes no further request is sent,
\* and no step undoes a request already sent.
C14_CallOrder == [](CallsInOrder) /\ [][CallsAppendOnly]_vars

\* createDeck succeeded, addNotes failed: the publish returned "error" with
\* the deck request standing and no sync sent
C14_Witness ==
    /\ pc = "pf_returned"
    /\ ActionsCalled = <<"createDeck", "addNotes">>
    /\ Succeeds(calls[1].response)
    /\ ~Succeeds(calls[2].response)
    /\ publish_result.status = "error"

====
